---- MODULE Spec2Model ----
(***************************************************************************)
(* Model of the OpenAQ fetch scripts: fetch_data_to_csv.py,                *)
(* fetch_data_to_postgres.py and fetch_data.py.                            *)
(*                                                                         *)
(*  - the Date Normalizer parse_date_to_openaq_format, a pure function,    *)
(*    exercised by SpecDate;                                               *)
(*  - the pagination loop of get_sensor_data / get_location_data and the   *)
(*    batch drivers under __main__, exercised by Spec and FairSpec.        *)
(***************************************************************************)
EXTENDS Integers, Sequences, FiniteSets, TLC

VARIABLES
    date_input,     \* SpecDate: the argument of parse_date_to_openaq_format
    norm_stage,     \* SpecDate: "input", "once" (normalized), "twice" (result normalized again)
    norm_once,      \* SpecDate: outcome of the first call
    norm_twice,     \* SpecDate: outcome of the call on the first call's value
    script,         \* which entry script runs: "csv", "postgres" or "location"
    pc,             \* "main", "sensors", "loop", "returned", "done", "aborted"
    idx,            \* __main__: position in sensor_ids of the unit of work (1-based)
    sensors,        \* get_location_data: the sensors the location lookup returned
    sidx,           \* get_location_data: position of the for loop in sensors
    sensor_id,      \* the sensor being collected
    parameter_name, \* get_location_data: sensor.parameter.name of that sensor
    datetime_from,  \* the date range sent with every page request
    datetime_to,
    page,           \* the page cursor
    all_data,       \* the result buffer (the DataFrame once returned)
    requests,       \* history: the page requests of the running collection call
    successful,     \* fetch_data_to_csv.py: the counters of __main__
    failed,
    units_done,     \* history: units of work whose loop body ran to its end
    unit_error,     \* history: an exception was raised while the current unit ran
    failed_clean,   \* history: a unit was counted as failed though nothing was raised while it ran
    unlogged        \* history: exceptions no handler of the scripts caught and printed

dateVars == <<date_input, norm_stage, norm_once, norm_twice>>

runVars ==
    <<script, pc, idx, sensors, sidx, sensor_id, parameter_name, datetime_from,
      datetime_to, page, all_data, requests, successful, failed, units_done,
      unit_error, failed_clean, unlogged>>

vars == <<dateVars, runVars>>

(***************************************************************************)
(* Python values that reach the Date Normalizer.                           *)
(***************************************************************************)
NoneV == [type |-> "none"]
StrV(s) == [type |-> "str", s |-> s]
IntV(n) == [type |-> "int", n |-> n]
DateTimeV(y, mo, d, h, mi, sec) ==
    [type |-> "datetime", year |-> y, month |-> mo, day |-> d,
     hour |-> h, minute |-> mi, second |-> sec]

Returned(v) == [raised |-> FALSE, value |-> v]
RaisedValueError == [raised |-> TRUE, value |-> NoneV]

(***************************************************************************)
(* Characters and numbers of a string.                                     *)
(***************************************************************************)
Char(s, i) == SubSeq(s, i, i)

Digits == "0123456789"
Letters == "abcdefghijklmnopqrstuvwxyzABCDEFGHIJKLMNOPQRSTUVWXYZ"

IsDigit(c) == \E i \in 1..Len(Digits) : Char(Digits, i) = c
IsAlpha(c) == \E i \in 1..Len(Letters) : Char(Letters, i) = c

DigitVal(c) == (CHOOSE i \in 1..Len(Digits) : Char(Digits, i) = c) - 1

AllDigits(s) == Len(s) > 0 /\ \A i \in 1..Len(s) : IsDigit(Char(s, i))

RECURSIVE ToInt(_)
ToInt(s) ==
    IF Len(s) = 0 THEN 0
    ELSE ToInt(SubSeq(s, 1, Len(s) - 1)) * 10 + DigitVal(Char(s, Len(s)))

endswith(s, c) == Len(s) > 0 /\ Char(s, Len(s)) = c

(***************************************************************************)
(* strftime("%Y-%m-%dT%H:%M:%SZ"): zero-padded decimal fields.             *)
(***************************************************************************)
DigitStr(n) == Char(Digits, n + 1)
Pad2(n) == DigitStr((n \div 10) % 10) \o DigitStr(n % 10)
Pad4(n) == Pad2(n \div 100) \o Pad2(n % 100)

strftime(dt) ==
    Pad4(dt.year) \o "-" \o Pad2(dt.month) \o "-" \o Pad2(dt.day) \o "T"
        \o Pad2(dt.hour) \o ":" \o Pad2(dt.minute) \o ":" \o Pad2(dt.second) \o "Z"

(***************************************************************************)
(* dateutil's parser.parse(s, dayfirst=False), for the shapes of input the *)
(* docstring lists: numeric dates with "/" or "-", month-name dates, an    *)
(* optional time of day after "T" or a blank, an optional trailing "Z".    *)
(* The string is split into runs of digits, runs of letters and single     *)
(* other characters, as the library's lexer does.                          *)
(***************************************************************************)
CharClass(c) == IF IsDigit(c) THEN "d" ELSE IF IsAlpha(c) THEN "a" ELSE "o"

RunLen(s, cls) ==
    CHOOSE n \in 1..Len(s) :
        /\ \A i \in 1..n : CharClass(Char(s, i)) = cls
        /\ (n = Len(s) \/ CharClass(Char(s, n + 1)) # cls)

RECURSIVE Lex(_)
Lex(s) ==
    IF Len(s) = 0 THEN <<>>
    ELSE LET cls == CharClass(Char(s, 1))
             n == IF cls = "o" THEN 1 ELSE RunLen(s, cls)
         IN <<SubSeq(s, 1, n)>> \o Lex(SubSeq(s, n + 1, Len(s)))

MonthNames ==
    <<"January", "February", "March", "April", "May", "June", "July",
      "August", "September", "October", "November", "December">>
MonthAbbrevs ==
    <<"Jan", "Feb", "Mar", "Apr", "May", "Jun", "Jul", "Aug", "Sep", "Oct",
      "Nov", "Dec">>

IsMonthWord(w) == \E i \in 1..12 : w = MonthNames[i] \/ w = MonthAbbrevs[i]
MonthOfWord(w) == CHOOSE i \in 1..12 : w = MonthNames[i] \/ w = MonthAbbrevs[i]

IsLeap(y) == (y % 4 = 0 /\ y % 100 # 0) \/ y % 400 = 0
DaysInMonth(y, m) ==
    IF m = 2 THEN (IF IsLeap(y) THEN 29 ELSE 28)
    ELSE IF m \in {4, 6, 9, 11} THEN 30 ELSE 31

ValidDate(y, m, d) == y \in 1..9999 /\ m \in 1..12 /\ d \in 1..DaysInMonth(y, m)
ValidTime(h, mi, sec) == h \in 0..23 /\ mi \in 0..59 /\ sec \in 0..59

NoParse == [ok |-> FALSE]
Parsed(y, m, d, h, mi, sec) ==
    IF ValidDate(y, m, d) /\ ValidTime(h, mi, sec)
    THEN [ok |-> TRUE, dt |-> DateTimeV(y, m, d, h, mi, sec)]
    ELSE NoParse

\* Three numbers a, b, c as written, joined by one kind of separator:
\* a token of more than two digits in front is the year (year, month, day);
\* otherwise the year is last, and the first number is the month unless it
\* is above 12 (dayfirst=False).
ResolveYmd(ta, tb, tc) ==
    LET a == ToInt(ta)  b == ToInt(tb)  c == ToInt(tc)
    IN  IF Len(ta) > 2 THEN [y |-> a, m |-> b, d |-> c]
        ELSE IF a > 12 THEN [y |-> c, m |-> b, d |-> a]
        ELSE [y |-> c, m |-> a, d |-> b]

\* The date at the front of the token list: [ok, y, m, d, n] with n the
\* number of tokens it takes.
DateTokens(t) ==
    IF /\ Len(t) >= 5
       /\ AllDigits(t[1]) /\ AllDigits(t[3]) /\ AllDigits(t[5])
       /\ t[2] \in {"/", "-"} /\ t[4] = t[2]
       /\ Len(t[1]) > 2 \/ Len(t[5]) > 2
    THEN LET r == ResolveYmd(t[1], t[3], t[5])
         IN [ok |-> TRUE, y |-> r.y, m |-> r.m, d |-> r.d, n |-> 5]
    ELSE IF /\ Len(t) >= 5
            /\ IsMonthWord(t[1]) /\ t[2] = " " /\ AllDigits(t[3])
            /\ t[4] = " " /\ AllDigits(t[5]) /\ Len(t[5]) > 2
    THEN [ok |-> TRUE, y |-> ToInt(t[5]), m |-> MonthOfWord(t[1]),
          d |-> ToInt(t[3]), n |-> 5]
    ELSE IF /\ Len(t) >= 6
            /\ IsMonthWord(t[1]) /\ t[2] = " " /\ AllDigits(t[3])
            /\ t[4] = "," /\ t[5] = " " /\ AllDigits(t[6]) /\ Len(t[6]) > 2
    THEN [ok |-> TRUE, y |-> ToInt(t[6]), m |-> MonthOfWord(t[1]),
          d |-> ToInt(t[3]), n |-> 6]
    ELSE [ok |-> FALSE, y |-> 0, m |-> 0, d |-> 0, n |-> 0]

\* What follows the date: nothing, or a time of day HH:MM:SS after "T" or a
\* blank, with an optional "Z" behind it.
TimeTokens(t) ==
    IF Len(t) = 0 THEN [ok |-> TRUE, h |-> 0, mi |-> 0, sec |-> 0]
    ELSE IF /\ Len(t) \in {6, 7}
            /\ t[1] \in {"T", " "}
            /\ AllDigits(t[2]) /\ t[3] = ":" /\ AllDigits(t[4])
            /\ t[5] = ":" /\ AllDigits(t[6])
            /\ Len(t) = 7 => t[7] = "Z"
    THEN [ok |-> TRUE, h |-> ToInt(t[2]), mi |-> ToInt(t[4]), sec |-> ToInt(t[6])]
    ELSE [ok |-> FALSE, h |-> 0, mi |-> 0, sec |-> 0]

parser_parse(s) ==
    LET t == Lex(s)
        date == DateTokens(t)
        time == IF date.ok THEN TimeTokens(SubSeq(t, date.n + 1, Len(t)))
                ELSE [ok |-> FALSE, h |-> 0, mi |-> 0, sec |-> 0]
    IN  IF date.ok /\ time.ok
        THEN Parsed(date.y, date.m, date.d, time.h, time.mi, time.sec)
        ELSE NoParse

(***************************************************************************)
(* parse_date_to_openaq_format                                             *)
(***************************************************************************)
\* as parse_date_to_openaq_format, without the endswith('Z') shortcut
parse_date_no_fast_path(date_input_) ==
    IF date_input_.type = "none" THEN Returned(NoneV)
    ELSE IF date_input_.type = "datetime" THEN Returned(StrV(strftime(date_input_)))
    ELSE IF date_input_.type = "str" /\ parser_parse(date_input_.s).ok
    THEN Returned(StrV(strftime(parser_parse(date_input_.s).dt)))
    ELSE RaisedValueError

parse_date_to_openaq_format(date_input_) ==
    IF date_input_.type = "none" THEN Returned(NoneV)
    ELSE IF date_input_.type = "datetime" THEN Returned(StrV(strftime(date_input_)))
    ELSE IF date_input_.type = "str" /\ endswith(date_input_.s, "Z")
    THEN Returned(date_input_)
    \* parser.parse raises TypeError for a value that is no string and
    \* ParserError for a string it cannot read; both become ValueError
    ELSE IF date_input_.type = "str" /\ parser_parse(date_input_.s).ok
    THEN Returned(StrV(strftime(parser_parse(date_input_.s).dt)))
    ELSE RaisedValueError

(***************************************************************************)
(* SpecDate: the Date Normalizer applied to an input, then to its result.  *)
(***************************************************************************)
DateStrings ==
    {"1/2/2020", "01/02/2020", "2020-01-02", "2020-1-2", "2020/01/02",
     "January 2, 2020", "Jan 2 2020", "1/1/2023", "12/31/2023", "13/1/2020",
     "2/29/2020", "2/29/2023", "2/30/2020", "2020-13-01", "2020-01-02T03:04:05",
     "2020-01-02 23:59:59", "2020-01-02T03:04:05Z", "2020-01-01T00:00:00Z",
     "2025-01-01T00:00:00Z", "not-a-date", "not-a-dateZ", "2020-13-45Z",
     "tbdZ", "", "yesterday", "2020-01-02T25:00:00"}

DateTimes ==
    {DateTimeV(y, mo, d, h, mi, sec) :
        y \in {2020, 2023}, mo \in {1, 12}, d \in {2, 31},
        h \in {0, 23}, mi \in {0, 59}, sec \in {0, 5}}

DateInputs ==
    {NoneV} \cup {StrV(s) : s \in DateStrings} \cup DateTimes \cup {IntV(20200102)}

InitDate ==
    /\ date_input \in DateInputs
    /\ norm_stage = "input"
    /\ norm_once = Returned(NoneV)
    /\ norm_twice = Returned(NoneV)
    /\ script = "none"
    /\ pc = "done"
    /\ idx = 1
    /\ sensors = <<>>
    /\ sidx = 1
    /\ sensor_id = 0
    /\ parameter_name = ""
    /\ datetime_from = NoneV
    /\ datetime_to = NoneV
    /\ page = 1
    /\ all_data = <<>>
    /\ requests = <<>>
    /\ successful = 0
    /\ failed = 0
    /\ units_done = 0
    /\ unit_error = FALSE
    /\ failed_clean = FALSE
    /\ unlogged = 0

Normalize ==
    /\ norm_stage = "input"
    /\ norm_once' = parse_date_to_openaq_format(date_input)
    /\ norm_stage' = "once"
    /\ UNCHANGED <<date_input, norm_twice, runVars>>

Renormalize ==
    /\ norm_stage = "once"
    /\ ~norm_once.raised
    /\ norm_twice' = parse_date_to_openaq_format(norm_once.value)
    /\ norm_stage' = "twice"
    /\ UNCHANGED <<date_input, norm_once, runVars>>

NextDate == Normalize \/ Renormalize

SpecDate == InitDate /\ [][NextDate]_vars

(***************************************************************************)
(* The upstream API, as the scripts see it.                                *)
(***************************************************************************)
PageLimit == 1000            \* limit=1000 of measurements.list
ShortPageThreshold == 1000   \* len(response.results) < 1000

MaxRequests == 3             \* page requests modelled per sensor

ShortSizes == {500, 999}   \* sizes of the pages that are not full
BadPageSizes == {1000}     \* sizes of the pages with an unreadable result
BadPositions == {3}        \* where in its page that result is

NumV(x) == [type |-> "float", v |-> x]

\* The answer to one page request: the call raises, or returns a page of n
\* results of which result number bad (0: none) has no period start.
Outcomes ==
    {[kind |-> "error", n |-> 0, bad |-> 0]} \cup
    {[kind |-> "page", n |-> n, bad |-> 0] : n \in {0} \cup ShortSizes \cup {PageLimit}} \cup
    {[kind |-> "page", n |-> n, bad |-> b] : n \in BadPageSizes, b \in BadPositions}

ParamOf(id) == IF id % 2 = 0 THEN "o3" ELSE "pm25"
UnitsOf(id) == IF id % 2 = 0 THEN "ppm" ELSE "ug/m3"

\* Result number i of page page_ of a sensor. Values, coverage blocks and
\* summary blocks are present or absent, zero or not, depending on i.
ResultAt(id, page_, i, malformed) ==
    LET day == (page_ - 1) * PageLimit + i
    IN  [parameter |-> [name |-> ParamOf(id), units |-> UnitsOf(id)],
         period |-> [datetime_from |->
                        IF malformed THEN NoneV
                        ELSE [type |-> "datetime", utc |-> day, local |-> day + 1000000]],
         value |-> IF i % 5 = 0 THEN NoneV ELSE NumV(i % 3),
         coverage |-> IF i % 3 = 2 THEN NoneV
                      ELSE [type |-> "coverage",
                            percent_complete |-> NumV(IF i % 2 = 0 THEN 0 ELSE 100)],
         summary |-> IF i % 2 = 0 THEN NoneV
                     ELSE [type |-> "summary", min |-> NumV(0),
                           max |-> NumV((i % 3) + 1), median |-> NumV(i % 3)]]

PageResults(id, page_, o) ==
    [i \in 1..o.n |-> ResultAt(id, page_, i, i = o.bad)]

\* The sensors a location lookup may return.
SensorOf(id) == [id |-> id, parameter |-> [name |-> ParamOf(id)]]
SensorLists ==
    {<<>>, <<SensorOf(11)>>, <<SensorOf(11), SensorOf(12)>>,
     <<SensorOf(12), SensorOf(11)>>}

(***************************************************************************)
(* Flattening one result into a row.                                       *)
(***************************************************************************)
Truthy(obj) == obj # NoneV

CoveragePercent(result) ==
    IF Truthy(result.coverage) THEN result.coverage.percent_complete ELSE NoneV

\* as SummaryMin, testing the number instead of the block
SummaryMinOrNone(result) ==
    IF Truthy(result.summary) /\ result.summary.min # NumV(0)
    THEN result.summary.min ELSE NoneV
SummaryMin(result) ==
    IF Truthy(result.summary) THEN result.summary.min ELSE NoneV
SummaryMax(result) ==
    IF Truthy(result.summary) THEN result.summary.max ELSE NoneV
SummaryMedian(result) ==
    IF Truthy(result.summary) THEN result.summary.median ELSE NoneV

\* result.period.datetime_from.utc raises AttributeError when the period has
\* no start
Flattens(result) == result.period.datetime_from # NoneV

FlattenCsv(sensor_id_, result) ==
    [sensor_id |-> sensor_id_,
     parameter |-> result.parameter.name,
     datetime_utc |-> result.period.datetime_from.utc,
     datetime_local |-> result.period.datetime_from.local,
     value |-> result.value,
     units |-> result.parameter.units,
     coverage_percent |-> CoveragePercent(result),
     min |-> SummaryMin(result),
     max |-> SummaryMax(result),
     median |-> SummaryMedian(result)]

FlattenPostgres(sensor_id_, result) ==
    [sensor_id |-> sensor_id_,
     parameter |-> result.parameter.name,
     datetime_utc |-> result.period.datetime_from.utc,
     datetime_local |-> result.period.datetime_from.local,
     value |-> result.value,
     units |-> result.parameter.units,
     coverage_percent |-> CoveragePercent(result),
     min_value |-> SummaryMin(result),
     max_value |-> SummaryMax(result),
     median_value |-> SummaryMedian(result)]

FlattenLocation(sensor_id_, parameter_name_, result) ==
    [sensor_id |-> sensor_id_,
     parameter |-> parameter_name_,
     datetime_utc |-> result.period.datetime_from.utc,
     datetime_local |-> result.period.datetime_from.local,
     value |-> result.value,
     units |-> result.parameter.units,
     coverage_percent |-> CoveragePercent(result),
     min |-> SummaryMin(result),
     max |-> SummaryMax(result),
     median |-> SummaryMedian(result)]

FlattenRecord(script_, sensor_id_, parameter_name_, result) ==
    IF script_ = "csv" THEN FlattenCsv(sensor_id_, result)
    ELSE IF script_ = "postgres" THEN FlattenPostgres(sensor_id_, result)
    ELSE FlattenLocation(sensor_id_, parameter_name_, result)

\* The for loop over response.results appends row after row until a result
\* raises: the rows of the results in front of it are in the buffer by then.
FlattenedCount(results) ==
    IF \A i \in 1..Len(results) : Flattens(results[i]) THEN Len(results)
    ELSE (CHOOSE i \in 1..Len(results) :
            /\ ~Flattens(results[i])
            /\ \A j \in 1..(i - 1) : Flattens(results[j])) - 1

(***************************************************************************)
(* The decisions of the pagination loop.                                   *)
(***************************************************************************)
NoResults(results) == Len(results) = 0                   \* not response.results
\* as LastPage, with <= for <
LastPageInclusive(results) == Len(results) <= ShortPageThreshold
LastPage(results) == Len(results) < ShortPageThreshold   \* short page: break

\* as NextPage, without the increment
NextPageStuck(page_) == page_
NextPage(page_) == page_ + 1                             \* page += 1

\* as OnPageError, skipping the failed page instead of leaving the loop
OnPageErrorSkip(page_) == [break |-> FALSE, page |-> page_ + 1]
\* except Exception: print, break
OnPageError(page_) == [break |-> TRUE, page |-> page_]

\* as FirstPage, with the cursor set once in front of the for loop
FirstPageKept(page_) == page_
\* page = 1 in front of the while loop of each sensor
FirstPage(page_) == 1

(***************************************************************************)
(* The entry scripts.                                                      *)
(***************************************************************************)
Scripts == {"csv", "postgres", "location"}

sensor_ids(script_) ==
    IF script_ = "csv" THEN <<1671, 1404, 564, 8330, 2183>>
    ELSE IF script_ = "postgres" THEN <<1884, 2178, 1102>>
    ELSE <<>>

\* The units of work of a run: the sensors of the list, or the one location.
NumUnits(script_) == IF script_ = "location" THEN 1 ELSE Len(sensor_ids(script_))

\* The date arguments __main__ hands to get_sensor_data (the defaults of the
\* signature in fetch_data_to_csv.py).
RawFrom(script_) ==
    IF script_ = "postgres" THEN StrV("1/1/2023") ELSE StrV("2020-01-01T00:00:00Z")
RawTo(script_) ==
    IF script_ = "postgres" THEN StrV("12/31/2023") ELSE StrV("2025-01-01T00:00:00Z")

Init ==
    /\ date_input = NoneV
    /\ norm_stage = "input"
    /\ norm_once = Returned(NoneV)
    /\ norm_twice = Returned(NoneV)
    /\ script \in Scripts
    /\ pc = "main"
    /\ idx = 1
    /\ sensors = <<>>
    /\ sidx = 1
    /\ sensor_id = 0
    /\ parameter_name = ""
    /\ datetime_from = RawFrom(script)
    /\ datetime_to = RawTo(script)
    /\ page = 1
    /\ all_data = <<>>
    /\ requests = <<>>
    /\ successful = 0
    /\ failed = 0
    /\ units_done = 0
    /\ unit_error = FALSE
    /\ failed_clean = FALSE
    /\ unlogged = 0

\* for idx, sensor_id in enumerate(sensor_ids, 1): try: df = get_sensor_data(...)
\* up to the while loop; a ValueError of the Date Normalizer goes to the
\* except block of __main__.
CallGetSensorData ==
    /\ pc = "main"
    /\ script \in {"csv", "postgres"}
    /\ idx <= Len(sensor_ids(script))
    /\ LET from == parse_date_to_openaq_format(RawFrom(script))
           to == parse_date_to_openaq_format(RawTo(script))
       IN  IF from.raised \/ to.raised
           THEN /\ failed' = IF script = "csv" THEN failed + 1 ELSE failed
                /\ units_done' = units_done + 1
                /\ idx' = idx + 1
                /\ UNCHANGED <<pc, sensor_id, datetime_from, datetime_to, page,
                               all_data, requests, unit_error>>
           ELSE /\ sensor_id' = sensor_ids(script)[idx]
                /\ datetime_from' = from.value
                /\ datetime_to' = to.value
                /\ all_data' = <<>>
                /\ page' = 1
                /\ requests' = <<>>
                /\ unit_error' = FALSE
                /\ pc' = "loop"
                /\ UNCHANGED <<idx, failed, units_done>>
    /\ UNCHANGED <<script, sensors, sidx, parameter_name, successful, failed_clean,
                   unlogged>>
    /\ UNCHANGED dateVars

\* The requests of the sensor being collected.
SensorRequests == SelectSeq(requests, LAMBDA e : e.sidx = sidx)

\* One turn of the while True loop: the page request, the rows of its
\* results, and the decision to go on or to leave the loop.
FetchPage ==
    /\ pc = "loop"
    /\ Len(SensorRequests) < MaxRequests
    /\ \E o \in Outcomes :
        /\ LET results == PageResults(sensor_id, page, o)
               count == FlattenedCount(results)
               rows == [i \in 1..count |->
                           FlattenRecord(script, sensor_id, parameter_name, results[i])]
               raised == o.kind = "error" \/ count < Len(results)
               ctl == IF raised THEN OnPageError(page)
                      ELSE IF NoResults(results) \/ LastPage(results)
                      THEN [break |-> TRUE, page |-> page]
                      ELSE [break |-> FALSE, page |-> NextPage(page)]
           IN  /\ requests' = Append(requests,
                                  [sidx |-> sidx, sensor_id |-> sensor_id,
                                   page |-> page, outcome |-> o])
               /\ all_data' = IF o.kind = "error" \/ NoResults(results)
                              THEN all_data ELSE all_data \o rows
               /\ unit_error' = (unit_error \/ raised)
               /\ page' = ctl.page
               /\ IF ~ctl.break THEN pc' = "loop" /\ sidx' = sidx
                  ELSE IF script = "location" THEN pc' = "sensors" /\ sidx' = sidx + 1
                  ELSE pc' = "returned" /\ sidx' = sidx
    /\ UNCHANGED <<script, idx, sensors, sensor_id, parameter_name, datetime_from,
                   datetime_to, successful, failed, units_done, failed_clean,
                   unlogged>>
    /\ UNCHANGED dateVars

\* fetch_data_to_csv.py: the rest of the try block and its except block.
HandleCsv ==
    /\ pc = "returned"
    /\ script = "csv"
    /\ \E to_csv_raises \in BOOLEAN :
        IF all_data # <<>>
        THEN /\ successful' = IF to_csv_raises THEN successful ELSE successful + 1
             /\ failed' = IF to_csv_raises THEN failed + 1 ELSE failed
             /\ failed_clean' = failed_clean
        ELSE /\ ~to_csv_raises
             /\ failed' = failed + 1
             /\ successful' = successful
             /\ failed_clean' = (failed_clean \/ ~unit_error)
    /\ units_done' = units_done + 1
    /\ idx' = idx + 1
    /\ all_data' = <<>>
    /\ requests' = <<>>
    /\ unit_error' = FALSE
    /\ pc' = "main"
    /\ UNCHANGED <<script, sensors, sidx, sensor_id, parameter_name, datetime_from,
                   datetime_to, page, unlogged>>
    /\ UNCHANGED dateVars

\* fetch_data_to_postgres.py: if not df.empty: save_to_postgres(df). An error
\* of create_engine or pd.to_datetime reaches the except block of __main__,
\* an error of to_sql the one of save_to_postgres; both print it.
HandlePostgres ==
    /\ pc = "returned"
    /\ script = "postgres"
    /\ \E save \in {"saved", "create_engine raises", "to_datetime raises", "to_sql raises"} :
        all_data = <<>> => save = "saved"
    /\ units_done' = units_done + 1
    /\ idx' = idx + 1
    /\ all_data' = <<>>
    /\ requests' = <<>>
    /\ unit_error' = FALSE
    /\ pc' = "main"
    /\ UNCHANGED <<script, sensors, sidx, sensor_id, parameter_name, datetime_from,
                   datetime_to, page, successful, failed, failed_clean, unlogged>>
    /\ UNCHANGED dateVars

\* The list is exhausted: client.close() and the closing prints.
MainDone ==
    /\ pc = "main"
    /\ script \in {"csv", "postgres"}
    /\ idx > Len(sensor_ids(script))
    /\ pc' = "done"
    /\ UNCHANGED <<script, idx, sensors, sidx, sensor_id, parameter_name,
                   datetime_from, datetime_to, page, all_data, requests, successful,
                   failed, units_done, unit_error, failed_clean, unlogged>>
    /\ UNCHANGED dateVars

\* fetch_data.py: get_location_data(client, 1884) up to the for loop. Nothing
\* catches an error of client.locations.get, nor the IndexError of results[0]
\* on an empty result list.
LocationLookup ==
    /\ pc = "main"
    /\ script = "location"
    /\ \/ \E lookup \in {"get raises", "no results"} :
            /\ pc' = "aborted"
            /\ unlogged' = unlogged + 1
            /\ unit_error' = TRUE
            /\ UNCHANGED <<sensors, sidx, all_data, requests>>
       \/ \E found \in SensorLists :
            /\ sensors' = found
            /\ sidx' = 1
            /\ all_data' = <<>>
            /\ requests' = <<>>
            /\ pc' = "sensors"
            /\ UNCHANGED <<unlogged, unit_error>>
    /\ UNCHANGED <<script, idx, sensor_id, parameter_name, datetime_from,
                   datetime_to, page, successful, failed, units_done, failed_clean>>
    /\ UNCHANGED dateVars

\* for sensor in sensors: ... page = 1
NextSensor ==
    /\ pc = "sensors"
    /\ sidx <= Len(sensors)
    /\ sensor_id' = sensors[sidx].id
    /\ parameter_name' = sensors[sidx].parameter.name
    /\ page' = FirstPage(page)
    /\ pc' = "loop"
    /\ UNCHANGED <<script, idx, sensors, sidx, datetime_from, datetime_to, all_data,
                   requests, successful, failed, units_done, unit_error,
                   failed_clean, unlogged>>
    /\ UNCHANGED dateVars

\* The for loop is over: df = pd.DataFrame(all_data); return df; then, in
\* __main__, df.to_csv outside any try block. The process ends either way,
\* and its memory with it.
ReturnAndSaveLocation ==
    /\ pc = "sensors"
    /\ sidx > Len(sensors)
    /\ \E to_csv_raises \in BOOLEAN :
        IF to_csv_raises
        THEN /\ pc' = "aborted"
             /\ unlogged' = unlogged + 1
             /\ unit_error' = TRUE
             /\ UNCHANGED <<units_done, idx>>
        ELSE /\ pc' = "done"
             /\ units_done' = units_done + 1
             /\ idx' = idx + 1
             /\ UNCHANGED <<unlogged, unit_error>>
    /\ all_data' = <<>>
    /\ requests' = <<>>
    /\ UNCHANGED <<script, sensors, sidx, sensor_id, parameter_name, datetime_from,
                   datetime_to, page, successful, failed, failed_clean>>
    /\ UNCHANGED dateVars

Next ==
    \/ CallGetSensorData
    \/ FetchPage
    \/ HandleCsv
    \/ HandlePostgres
    \/ MainDone
    \/ LocationLookup
    \/ NextSensor
    \/ ReturnAndSaveLocation

Spec == Init /\ [][Next]_vars

\* The scripts are sequential and every page request returns or raises: a
\* turn of the while loop that can be taken is taken.
FairSpec == Spec /\ WF_vars(FetchPage)

(***************************************************************************)
(* What the history of page requests says the buffer should hold.          *)
(***************************************************************************)
RECURSIVE Concat(_)
Concat(seqs) == IF Len(seqs) = 0 THEN <<>> ELSE Head(seqs) \o Concat(Tail(seqs))

PageOK(e) == e.outcome.kind = "page" /\ e.outcome.bad = 0
FullPageOK(e) == PageOK(e) /\ e.outcome.n = 1000
PageSizesOf(log) == [k \in 1..Len(log) |-> log[k].outcome.n]

\* The upstream results the collector has turned into rows, in order, each
\* with the position of its sensor: every result of a page that came back
\* whole, and the results in front of the first unreadable one otherwise.
ConsumedOfPage(e) ==
    IF e.outcome.kind = "error" THEN <<>>
    ELSE LET rs == PageResults(e.sensor_id, e.page, e.outcome)
             good == IF e.outcome.bad = 0 THEN e.outcome.n ELSE e.outcome.bad - 1
         IN [i \in 1..good |-> [sidx |-> e.sidx, sensor_id |-> e.sensor_id, result |-> rs[i]]]
Consumed(log) == Concat([k \in 1..Len(log) |-> ConsumedOfPage(log[k])])

\* A row is known by its sensor and its period start.
RowKeys(rows) ==
    [j \in 1..Len(rows) |-> <<rows[j].sensor_id, rows[j].datetime_utc>>]
WholePageKeys(e) ==
    IF ~PageOK(e) THEN <<>>
    ELSE LET rs == PageResults(e.sensor_id, e.page, e.outcome)
         IN [i \in 1..Len(rs) |-> <<e.sensor_id, rs[i].period.datetime_from.utc>>]
WholePagesKeys(log) == Concat([k \in 1..Len(log) |-> WholePageKeys(log[k])])

RowMin(row) == IF script = "postgres" THEN row.min_value ELSE row.min
RowMax(row) == IF script = "postgres" THEN row.max_value ELSE row.max
RowMedian(row) == IF script = "postgres" THEN row.median_value ELSE row.median

(***************************************************************************)
(* C1. get_sensor_data, when no page request fails and every result can be *)
(* read: if page k is the first one with fewer than 1000 records, the      *)
(* collector has asked for pages 1, 2, ..., k, each once and in that       *)
(* order, and returns the records of pages 1..k in page order. 1000/1000/0 *)
(* gives 3 requests and 2000 records, 1000/500 gives 2 requests and 1500   *)
(* records, an empty first page 1 request and no record.                   *)
(***************************************************************************)
CollectorReturnsAllPages ==
    (/\ script \in {"csv", "postgres"}
     /\ pc = "returned"
     /\ \A k \in 1..Len(requests) : PageOK(requests[k]))
    => /\ Len(requests) >= 1
       /\ \A k \in 1..Len(requests) : requests[k].page = k
       /\ \A k \in 1..(Len(requests) - 1) : requests[k].outcome.n = 1000
       /\ requests[Len(requests)].outcome.n < 1000
       /\ RowKeys(all_data) = WholePagesKeys(requests)
       /\ PageSizesOf(requests) = <<1000, 1000, 0>> => Len(all_data) = 2000
       /\ PageSizesOf(requests) = <<1000, 500>> => Len(all_data) = 1500
       /\ PageSizesOf(requests) = <<0>> => Len(all_data) = 0

CollectorReturnsAllPagesWitness ==
    /\ script = "csv"
    /\ pc = "returned"
    /\ \A k \in 1..Len(requests) : PageOK(requests[k])
    /\ PageSizesOf(requests) = <<1000, 1000, 0>>
    /\ Len(all_data) = 2000

(***************************************************************************)
(* C2. get_sensor_data, when the request for page k raises after pages     *)
(* 1..k-1 each came back full: the collector returns to its caller, asks   *)
(* for no further page of that sensor, and what it returns is the records  *)
(* of pages 1..k-1.                                                        *)
(***************************************************************************)
ErrorStopsCollector ==
    script \in {"csv", "postgres"} =>
        \A k \in 1..Len(requests) :
            (/\ requests[k].outcome.kind = "error"
             /\ \A j \in 1..(k - 1) : FullPageOK(requests[j]))
            => /\ k = Len(requests)
               /\ pc = "returned"
               /\ \A j \in 1..k : requests[j].page = j
               /\ RowKeys(all_data) = WholePagesKeys(SubSeq(requests, 1, k - 1))
               /\ Len(all_data) = 1000 * (k - 1)

ErrorStopsCollectorWitness ==
    /\ script = "postgres"
    /\ pc = "returned"
    /\ Len(requests) = 2
    /\ FullPageOK(requests[1])
    /\ requests[2].outcome.kind = "error"
    /\ Len(all_data) = 1000

(***************************************************************************)
(* C5. Every row of the buffer carries the fields of the upstream result   *)
(* it was made from, unchanged: sensor id, parameter, UTC and local period *)
(* start, value, units, coverage percent, min, max, median. Without a      *)
(* summary block min, max and median are null, without a coverage block    *)
(* the coverage percent is null; a zero stays a zero.                      *)
(***************************************************************************)
FieldsPreserved ==
    LET src == Consumed(requests)
    IN  /\ Len(all_data) = Len(src)
        /\ \A j \in 1..Len(all_data) :
            LET row == all_data[j]
                r == src[j].result
            IN  /\ row.sensor_id = src[j].sensor_id
                /\ row.parameter = r.parameter.name
                /\ row.datetime_utc = r.period.datetime_from.utc
                /\ row.datetime_local = r.period.datetime_from.local
                /\ row.value = r.value
                /\ row.units = r.parameter.units
                /\ row.coverage_percent =
                       IF r.coverage = NoneV THEN NoneV ELSE r.coverage.percent_complete
                /\ RowMin(row) = IF r.summary = NoneV THEN NoneV ELSE r.summary.min
                /\ RowMax(row) = IF r.summary = NoneV THEN NoneV ELSE r.summary.max
                /\ RowMedian(row) = IF r.summary = NoneV THEN NoneV ELSE r.summary.median

\* Rows 1 to 4 of a page: a summary whose min is zero, a result without
\* summary and without coverage, a value of zero, a coverage of zero percent.
FieldsPreservedWitness ==
    /\ script = "csv"
    /\ pc = "returned"
    /\ Len(all_data) >= 4
    /\ all_data[1].min = NumV(0)
    /\ all_data[2].min = NoneV /\ all_data[2].coverage_percent = NoneV
    /\ all_data[3].value = NumV(0)
    /\ all_data[4].coverage_percent = NumV(0)

(***************************************************************************)
(* C6. No error other than a date-parse error aborts a batch run: an error *)
(* raised while a location is resolved, pages are fetched or the output is *)
(* written is printed by a handler, and every remaining unit of work is    *)
(* still processed.                                                        *)
(***************************************************************************)
BatchRunNeverAborts ==
    /\ pc # "aborted"
    /\ unlogged = 0
    /\ pc = "done" => units_done = NumUnits(script)

(***************************************************************************)
(* C7. An empty result set is not an error: the failed counter counts only *)
(* sensors during whose processing an error was raised.                    *)
(***************************************************************************)
EmptyResultIsNotFailure == ~failed_clean

(***************************************************************************)
(* C8. get_location_data runs the pagination loop once for every sensor    *)
(* the lookup returned, in the order returned, each from page 1; an error  *)
(* on a page ends the pagination of that sensor only; the output is the    *)
(* rows of the sensors in sensor order, each row with the id and the       *)
(* parameter name of its own sensor.                                       *)
(***************************************************************************)
LocationCollectsEverySensor ==
    script = "location" =>
        LET src == Consumed(requests)
        IN  /\ \A a, b \in 1..Len(requests) :
                    a < b => requests[a].sidx <= requests[b].sidx
            /\ \A k \in 1..Len(requests) :
                /\ requests[k].sidx \in 1..Len(sensors)
                /\ requests[k].sensor_id = sensors[requests[k].sidx].id
                /\ requests[k].page =
                       1 + Cardinality({j \in 1..(k - 1) :
                                            requests[j].sidx = requests[k].sidx})
                /\ (requests[k].outcome.kind = "error" \/ requests[k].outcome.bad # 0)
                       => \A j \in (k + 1)..Len(requests) :
                              requests[j].sidx # requests[k].sidx
            /\ (pc = "sensors" /\ sidx > Len(sensors)) =>
                   \A s \in 1..Len(sensors) :
                       \E k \in 1..Len(requests) : requests[k].sidx = s
            /\ Len(all_data) = Len(src)
            /\ \A j \in 1..Len(all_data) :
                /\ all_data[j].sensor_id = sensors[src[j].sidx].id
                /\ all_data[j].parameter = sensors[src[j].sidx].parameter.name
                /\ all_data[j].datetime_utc = src[j].result.period.datetime_from.utc

LocationCollectsEverySensorWitness ==
    /\ script = "location"
    /\ pc = "sensors" /\ sidx > Len(sensors)
    /\ Len(sensors) = 2
    /\ Len(requests) = 3
    /\ FullPageOK(requests[1]) /\ requests[1].sidx = 1
    /\ requests[2].outcome.kind = "error" /\ requests[2].sidx = 1
    /\ PageOK(requests[3]) /\ requests[3].sidx = 2 /\ requests[3].outcome.n = 500
    /\ Len(all_data) = 1500
    /\ all_data[1].parameter # all_data[1500].parameter

(***************************************************************************)
(* C9. The buffer holds whole pages only: it is the records of the pages   *)
(* that came back and were read to their end; of a page with an unreadable *)
(* result in the middle, no record is in the buffer.                       *)
(***************************************************************************)
BufferHoldsWholePages == RowKeys(all_data) = WholePagesKeys(requests)

(***************************************************************************)
(* C10. The pagination loop ends unless every page asked for comes back    *)
(* full (in the model: unless MaxRequests pages in a row did); the cursor  *)
(* moves by exactly 1 after a full page and not otherwise, and no page of  *)
(* a sensor is asked for twice.                                            *)
(***************************************************************************)
OnlyFullPages ==
    /\ Len(SensorRequests) = MaxRequests
    /\ \A k \in 1..Len(SensorRequests) : FullPageOK(SensorRequests[k])

CursorStep ==
    (pc = "loop" /\ requests' # requests) =>
        LET e == requests'[Len(requests')]
        IN  /\ e.page = page
            /\ IF FullPageOK(e) THEN pc' = "loop" /\ page' = page + 1
               ELSE pc' # "loop" /\ page' = page

NoPageTwice ==
    \A a, b \in 1..Len(requests) :
        (a # b /\ requests[a].sidx = requests[b].sidx)
            => requests[a].page # requests[b].page

PaginationTerminates ==
    /\ [](pc = "loop" => <>(pc # "loop" \/ OnlyFullPages))
    /\ [][CursorStep]_vars
    /\ []NoPageTwice

PaginationTerminatesWitness ==
    /\ pc = "returned"
    /\ Len(requests) = 3
    /\ FullPageOK(requests[1]) /\ FullPageOK(requests[2])
    /\ PageOK(requests[3]) /\ requests[3].outcome.n = 999
    /\ page = 3

(***************************************************************************)
(* C3. The Date Normalizer fails for every string that cannot be read as   *)
(* a date or time, a string ending with 'Z' included: it returns no value  *)
(* for it.                                                                 *)
(***************************************************************************)
UninterpretableStringFails ==
    (/\ norm_stage # "input"
     /\ date_input.type = "str"
     /\ ~parser_parse(date_input.s).ok)
    => norm_once.raised

(***************************************************************************)
(* C4. The Date Normalizer is idempotent: normalizing its own result gives *)
(* that result again; a string ending with 'Z' comes back unchanged and    *)
(* None comes back as None, without error.                                 *)
(***************************************************************************)
NormalizerIdempotent ==
    /\ norm_stage = "twice" => norm_twice = norm_once
    /\ (norm_stage # "input" /\ date_input.type = "str" /\ endswith(date_input.s, "Z"))
           => norm_once = Returned(date_input)
    /\ (norm_stage # "input" /\ date_input = NoneV) => norm_once = Returned(NoneV)

NormalizerIdempotentWitness ==
    /\ norm_stage = "twice"
    /\ date_input = StrV("1/2/2020")
    /\ norm_once = Returned(StrV("2020-01-02T00:00:00Z"))
    /\ norm_twice = norm_once

====
